---- MODULE Spec2Model ----
(***************************************************************************)
(* k-mer abundance spectrum (src/src/main.rs).                             *)
(*                                                                         *)
(* A FASTA record carries its abundance in the header (ka:f:<digits>).     *)
(* Every window of k bases of the record is packed into a u64, 2 bits per  *)
(* base, optionally replaced by the smaller of itself and its reverse      *)
(* complement, and the abundance is added to that k-mer's counter.  After  *)
(* the last record the counters are inverted into a histogram and printed. *)
(*                                                                         *)
(* u64 and u32 values are kept at their width: a value is a tuple of       *)
(* 16-bit limbs, most significant limb first, so that shifts drop the bits *)
(* a u64 drops and additions carry out where a u64 overflows.              *)
(***************************************************************************)
EXTENDS Integers, Sequences, FiniteSets, TLC

\* ------------------------------------------------------------------ bounds
\* Longest sequence of the exhaustive inputs of the k-mer generator.
MaxLen == 3
\* Largest small window length tried (besides the lengths around KMax).
MaxK == 4
\* Records read in one run.
MaxRecords == 2
\* Largest --limit tried.
MaxLimit == 4

\* ------------------------------------------------------- program constants
KMax == 32
U64Bits == 64
U32Bits == 32
LimbBits == 16

\* ---------------------------------------------------------------- Option<T>
None == <<>>
Some(v) == <<v>>
IsSome(o) == o # None
Unwrap(o) == o[1]

\* ------------------------------------------------------- fixed-width values
Radix == 2 ^ LimbBits
U64Limbs == U64Bits \div LimbBits
U32Limbs == U32Bits \div LimbBits

\* A value of n limbs, all zero.
Zero(n) == [i \in 1..n |-> 0]
U64Zero == Zero(U64Limbs)

\* A small non-negative number (below Radix * Radix / 2) as a value of n limbs.
FromInt(v, n) ==
    [i \in 1..n |-> IF i = n THEN v % Radix
                    ELSE IF i = n - 1 THEN (v \div Radix) % Radix
                    ELSE 0]
U64FromInt(v) == FromInt(v, U64Limbs)

\* x + y on values of the same width: the sum at that width and the carry out.
LimbAdd(x, y) ==
    LET n == Len(x)
        c[i \in 1..(n + 1)] ==
            IF i = n + 1 THEN 0 ELSE (x[i] + y[i] + c[i + 1]) \div Radix
    IN  [val |-> [i \in 1..n |-> (x[i] + y[i] + c[i + 1]) % Radix],
         carry |-> c[1]]

\* x * m for a small m: the product at the width of x and the carry out.
LimbMulSmall(x, m) ==
    LET n == Len(x)
        c[i \in 1..(n + 1)] ==
            IF i = n + 1 THEN 0 ELSE (x[i] * m + c[i + 1]) \div Radix
    IN  [val |-> [i \in 1..n |-> (x[i] * m + c[i + 1]) % Radix],
         carry |-> c[1]]

\* x < y on values of the same width (unsigned comparison).
LimbLess(x, y) ==
    \E i \in 1..Len(x) : x[i] < y[i] /\ \A j \in 1..(i - 1) : x[j] = y[j]

LimbMin(x, y) == IF LimbLess(y, x) THEN y ELSE x

\* (x << 2) | bits on a u64: the two highest bits fall off.
Shl2Or(x, bits) ==
    LET n == Len(x)
    IN  [i \in 1..n |->
            ((x[i] * 4) % Radix)
            + (IF i < n THEN x[i + 1] \div (Radix \div 4) ELSE bits)]

\* ------------------------------------------------------------ nucleotides
Valid == {"A", "C", "G", "T", "a", "c", "g", "t"}
Bytes == Valid \cup {"N"}

nucleotide_to_bits(n) ==
    CASE n \in {"A", "a"} -> Some(0)
      [] n \in {"C", "c"} -> Some(1)
      [] n \in {"G", "g"} -> Some(2)
      [] n \in {"T", "t"} -> Some(3)
      [] OTHER -> None

complement_to_bits(n) ==
    CASE n \in {"A", "a"} -> Some(3)
      [] n \in {"C", "c"} -> Some(2)
      [] n \in {"G", "g"} -> Some(1)
      [] n \in {"T", "t"} -> Some(0)
      [] OTHER -> None

\* ---------------------------------------------------------------- encoding
\* The bounds check of both encoders.
EncodeGuard(seq, k) == k > KMax \/ Len(seq) < k

\* enc[i] is the loop's state after i iterations: None once a base was
\* invalid (the early return), Some(encoded) otherwise.
encode_kmer(seq, k) ==
    IF EncodeGuard(seq, k) THEN None
    ELSE LET enc[i \in 0..k] ==
                 IF i = 0 THEN Some(U64Zero)
                 ELSE LET encoded == enc[i - 1]
                          bits == nucleotide_to_bits(seq[i])
                      IN  IF encoded = None \/ bits = None THEN None
                          ELSE Some(Shl2Or(Unwrap(encoded), Unwrap(bits)))
         IN  enc[k]

\* Mutant: the loop runs forward, over 0..k.
RevIndexForward(k, i) == i

\* The index the i-th iteration of (0..k).rev() reads (1-based).
RevIndex(k, i) == k - i + 1

encode_reverse_complement(seq, k) ==
    IF EncodeGuard(seq, k) THEN None
    ELSE LET enc[i \in 0..k] ==
                 IF i = 0 THEN Some(U64Zero)
                 ELSE LET encoded == enc[i - 1]
                          bits == complement_to_bits(seq[RevIndex(k, i)])
                      IN  IF encoded = None \/ bits = None THEN None
                          ELSE Some(Shl2Or(Unwrap(encoded), Unwrap(bits)))
         IN  enc[k]

\* Mutant: the loop runs over 0..seq.len() - k and misses the last window.
WindowCountExclusive(seq, k) == Len(seq) - k

\* The number of windows the generator visits: i in 0..=seq.len() - k.
WindowCount(seq, k) == Len(seq) - k + 1

\* What one window pushes: nothing, or one k-mer.
PushWindow(kmer_slice, k, canonical) ==
    LET encoded == encode_kmer(kmer_slice, k)
    IN  IF encoded = None THEN <<>>
        ELSE IF canonical
             THEN LET rev_comp == encode_reverse_complement(kmer_slice, k)
                  IN  IF rev_comp = None THEN <<>>
                      ELSE <<LimbMin(Unwrap(encoded), Unwrap(rev_comp))>>
             ELSE <<Unwrap(encoded)>>

\* kmers[j] is the vector after the windows at offsets 0..j-1.
generate_encoded_kmers(seq, k, canonical) ==
    IF Len(seq) < k THEN <<>>
    ELSE LET n == WindowCount(seq, k)
             kmers[j \in 0..n] ==
                 IF j = 0 THEN <<>>
                 ELSE kmers[j - 1]
                      \o PushWindow(SubSeq(seq, j, j + k - 1), k, canonical)
         IN  kmers[n]

\* ------------------------------------------------------- header annotation
Digits == {"0", "1", "2", "3", "4", "5", "6", "7", "8", "9"}
\* \d is Unicode-aware: it also matches decimal digits outside ASCII, such as
\* ARABIC-INDIC DIGIT THREE, which str::parse does not take for a digit.
ArabicIndicThree == "U+0663"
RegexDigits == Digits \cup {ArabicIndicThree}
DigitValue(c) ==
    CASE c = "0" -> 0 [] c = "1" -> 1 [] c = "2" -> 2 [] c = "3" -> 3
      [] c = "4" -> 4 [] c = "5" -> 5 [] c = "6" -> 6 [] c = "7" -> 7
      [] c = "8" -> 8 [] c = "9" -> 9

\* The literal part of the pattern ka:f:(\d+).
Tag == <<"k", "a", ":", "f", ":">>

\* The pattern matches at position i: the literal, then at least one digit.
MatchAt(header, i) ==
    /\ i + Len(Tag) <= Len(header)
    /\ SubSeq(header, i, i + Len(Tag) - 1) = Tag
    /\ header[i + Len(Tag)] \in RegexDigits

\* Capture group 1 of the leftmost match: the longest run of digits.
Capture(header) ==
    LET starts == {i \in 1..Len(header) : MatchAt(header, i)}
    IN  IF starts = {} THEN None
        ELSE LET i == CHOOSE a \in starts : \A b \in starts : a <= b
                 from == i + Len(Tag)
                 to == CHOOSE e \in from..Len(header) :
                           /\ \A j \in from..e : header[j] \in RegexDigits
                           /\ e = Len(header) \/ header[e + 1] \notin RegexDigits
             IN  Some(SubSeq(header, from, to))

\* Mutant: the digits are parsed with wrapping arithmetic.
ParseU32Wrapping(digits) ==
    LET acc[j \in 0..Len(digits)] ==
            IF j = 0 THEN Zero(U32Limbs)
            ELSE IF digits[j] \notin Digits THEN acc[j - 1]
            ELSE LimbAdd(LimbMulSmall(acc[j - 1], 10).val,
                         FromInt(DigitValue(digits[j]), U32Limbs)).val
    IN  Some(acc[Len(digits)])

\* str::parse::<u32>: digit by digit, checked_mul(10) then checked_add(digit);
\* None on a character that is no ASCII digit and on overflow.
ParseU32(digits) ==
    LET acc[j \in 0..Len(digits)] ==
            IF j = 0 THEN Some(Zero(U32Limbs))
            ELSE LET result == acc[j - 1]
                 IN  IF result = None \/ digits[j] \notin Digits THEN None
                     ELSE LET m == LimbMulSmall(Unwrap(result), 10)
                              a == LimbAdd(m.val, FromInt(DigitValue(digits[j]), U32Limbs))
                          IN  IF m.carry # 0 \/ a.carry # 0 THEN None
                              ELSE Some(a.val)
    IN  acc[Len(digits)]

extract_abundance(header) ==
    LET caps == Capture(header)
    IN  IF caps = None THEN None ELSE ParseU32(Unwrap(caps))

\* abundance as u64
AsU64(abundance) == Zero(U64Limbs - U32Limbs) \o abundance

\* format!("{} {}", record.id(), record.desc().unwrap_or(""))
Header(record) ==
    record.id \o <<" ">> \o (IF record.desc = None THEN <<>> ELSE Unwrap(record.desc))

\* -------------------------------------------------------------- count table
\* *kmer_counts.entry(kmer).or_insert(0) += weight.  The sum at the width of
\* a u64, and whether the addition overflowed.
AddEntry(counts, kmer, weight) ==
    LET old == IF kmer \in DOMAIN counts THEN counts[kmer] ELSE U64Zero
        s == LimbAdd(old, weight)
    IN  [counts |-> (kmer :> s.val) @@ counts, overflow |-> s.carry # 0]

\* for kmer in kmers { ... += abundance as u64 }.  An overflowing addition
\* panics in a build with overflow checks (the loop stops there) and wraps
\* in a build without.
Accumulate(counts, kmers, weight, checks) ==
    LET acc[j \in 0..Len(kmers)] ==
            IF j = 0 THEN [counts |-> counts, panicked |-> FALSE]
            ELSE LET before == acc[j - 1]
                     e == AddEntry(before.counts, kmers[j], weight)
                 IN  IF before.panicked THEN before
                     ELSE IF e.overflow /\ checks
                     THEN [counts |-> before.counts, panicked |-> TRUE]
                     ELSE [counts |-> e.counts, panicked |-> FALSE]
    IN  acc[Len(kmers)]

\* The body of the loop over the records for one record.
ProcessRecord(counts, record, k, canonical, checks) ==
    LET abundance == extract_abundance(Header(record))
    IN  IF abundance = None THEN [counts |-> counts, panicked |-> FALSE]
        ELSE Accumulate(counts,
                        generate_encoded_kmers(record.seq, k, canonical),
                        AsU64(Unwrap(abundance)), checks)

\* ---------------------------------------------------------------- histogram
\* Mutant: histogram.insert(count, 1).
CountValueOverwrite(hist, count) == (count :> U64FromInt(1)) @@ hist

\* *histogram.entry(count).or_insert(0) += 1
CountValue(hist, count) ==
    LET old == IF count \in DOMAIN hist THEN hist[count] ELSE U64Zero
    IN  (count :> LimbAdd(old, U64FromInt(1)).val) @@ hist

\* for &count in kmer_counts.values(): the keys are visited in some order.
RECURSIVE HistogramOver(_, _, _)
HistogramOver(counts, keys, hist) ==
    IF keys = {} THEN hist
    ELSE LET key == CHOOSE x \in keys : TRUE
         IN  HistogramOver(counts, keys \ {key}, CountValue(hist, counts[key]))

\* Mutant: k-mers whose value is 0 are left out.
BuildHistogramNonZero(counts) ==
    HistogramOver(counts, {x \in DOMAIN counts : counts[x] # U64Zero}, <<>>)

BuildHistogram(counts) == HistogramOver(counts, DOMAIN counts, <<>>)

\* The order of (&u64, &u64) tuples: by frequency, then by count.
PairLess(p, q) ==
    LimbLess(p[1], q[1]) \/ (p[1] = q[1] /\ LimbLess(p[2], q[2]))

RECURSIVE SortPairs(_)
SortPairs(pairs) ==
    IF pairs = {} THEN <<>>
    ELSE LET least == CHOOSE p \in pairs : \A q \in pairs \ {p} : PairLess(p, q)
         IN  <<least>> \o SortPairs(pairs \ {least})

\* histogram.iter().collect() and sort()
SortHistogram(hist) == SortPairs({<<f, hist[f]>> : f \in DOMAIN hist})

\* Mutant: if *freq >= limit { break }.
OverLimitInclusive(freq, limit) == limit # None /\ ~LimbLess(freq, Unwrap(limit))

\* if let Some(limit) = args.limit { if *freq > limit { break } }
OverLimit(freq, limit) == limit # None /\ LimbLess(Unwrap(limit), freq)

HeaderLine == "K-mer Frequency\tCount"
\* println!("{}\t{}", freq, count): the line is kept as its two fields.
RowLine(pair) == [freq |-> pair[1], count |-> pair[2]]

\* -------------------------------------------------------------------- inputs
Txt(digits) == Some(Tag \o digits)

\* The records a run can read.
RecordPool ==
    { [id |-> <<"s">>, desc |-> Txt(<<"2">>),
       seq |-> <<"A", "C", "G", "T", "A", "C", "G", "T">>],
      [id |-> <<"s">>, desc |-> Txt(<<"3">>),
       seq |-> <<"t", "a", "c", "G", "N", "A">>],
      [id |-> <<"s">>, desc |-> None,
       seq |-> <<"A", "C", "G", "T">>],
      [id |-> <<"s">>, desc |-> Txt(<<"4", "2", "9", "4", "9", "6", "7", "2", "9", "6">>),
       seq |-> <<"C", "G", "T", "A">>],
      [id |-> <<"s">>, desc |-> Txt(<<"0">>),
       seq |-> <<"G", "G">>],
      [id |-> Tag \o <<"4", "2", "9", "4", "9", "6", "7", "2", "9", "5">>,
       desc |-> Some(<<"k", "a", ":", "f", ":", "1">>),
       seq |-> <<"A">>],
      [id |-> <<"k", "a", ":", "f", ":">>, desc |-> Txt(<<"0", "1">>),
       seq |-> <<>>],
      [id |-> <<"s">>, desc |-> Txt(<<"1", ArabicIndicThree>>),
       seq |-> <<"A", "C">>] }

Ks == (0..MaxK) \cup {KMax, KMax + 1}
Limits == {None} \cup {Some(U64FromInt(n)) : n \in 0..MaxLimit}
ArgsSet == [k : Ks, canonical : BOOLEAN, limit : Limits]

\* --------------------------------------------------------------------- state
VARIABLES
    args,              \* Args: k, canonical, limit
    overflow_checks,   \* whether the build panics on integer overflow
    pc,                \* where main is
    consumed,          \* the records the reader has yielded
    earlier,           \* what the records read before the first of consumed
                       \* added to each counter (nothing in a run watched
                       \* from its start)
    kmer_counts,       \* HashMap<u64, u64>: k-mer to accumulated abundance
    histogram,         \* HashMap<u64, u64>: accumulated abundance to k-mers
    sorted_histogram,  \* Vec<(&u64, &u64)>
    row,               \* the next element of sorted_histogram
    stdout,            \* the lines printed
    exit_code,         \* the process's exit status, once it has one
    call,              \* generate_encoded_kmers called on its own: arguments
    ret                \* and result

vars == <<args, overflow_checks, pc, consumed, earlier, kmer_counts,
          histogram, sorted_histogram, row, stdout, exit_code, call, ret>>

mainVars == <<args, overflow_checks, pc, consumed, earlier, kmer_counts,
              histogram, sorted_histogram, row, stdout, exit_code>>

NoCall == [seq |-> <<>>, k |-> 0, canonical |-> FALSE]

\* main after Args::parse().
Init ==
    /\ args \in ArgsSet
    /\ overflow_checks \in BOOLEAN
    /\ pc = "start"
    /\ consumed = <<>>
    /\ earlier = <<>>
    /\ kmer_counts = <<>>
    /\ histogram = <<>>
    /\ sorted_histogram = <<>>
    /\ row = 1
    /\ stdout = <<>>
    /\ exit_code = None
    /\ call = NoCall
    /\ ret = None

\* if args.k > 32
KTooLarge(k) == k > KMax

\* eprintln!(...); std::process::exit(1)
RejectK ==
    /\ pc = "start"
    /\ KTooLarge(args.k)
    /\ pc' = "exited"
    /\ exit_code' = Some(1)
    /\ UNCHANGED <<args, overflow_checks, consumed, earlier, kmer_counts,
                   histogram, sorted_histogram, row, stdout, call, ret>>

\* Mutant: the header line is printed before the records are read.
OpenPrintsHeader ==
    /\ pc = "start"
    /\ ~KTooLarge(args.k)
    /\ pc' = "reading"
    /\ kmer_counts' = <<>>
    /\ stdout' = Append(stdout, HeaderLine)
    /\ UNCHANGED <<args, overflow_checks, consumed, earlier, histogram,
                   sorted_histogram, row, exit_code, call, ret>>

\* open_fasta_file(fasta_path)? succeeds; kmer_counts is created empty.
Open ==
    /\ pc = "start"
    /\ ~KTooLarge(args.k)
    /\ pc' = "reading"
    /\ kmer_counts' = <<>>
    /\ UNCHANGED <<args, overflow_checks, consumed, earlier, histogram,
                   sorted_histogram, row, stdout, exit_code, call, ret>>

\* open_fasta_file(fasta_path)? fails: main returns the error.
OpenError ==
    /\ pc = "start"
    /\ ~KTooLarge(args.k)
    /\ pc' = "failed"
    /\ exit_code' = Some(1)
    /\ UNCHANGED <<args, overflow_checks, consumed, earlier, kmer_counts,
                   histogram, sorted_histogram, row, stdout, call, ret>>

\* One iteration of the loop over reader.records() with an Ok record.
ReadRecord ==
    /\ pc = "reading"
    /\ Len(consumed) < MaxRecords
    /\ \E record \in RecordPool :
         LET r == ProcessRecord(kmer_counts, record, args.k, args.canonical,
                                overflow_checks)
         IN  /\ consumed' = Append(consumed, record)
             /\ kmer_counts' = r.counts
             /\ pc' = IF r.panicked THEN "panicked" ELSE "reading"
             /\ exit_code' = IF r.panicked THEN Some(101) ELSE exit_code
    /\ UNCHANGED <<args, overflow_checks, earlier, histogram, sorted_histogram,
                   row, stdout, call, ret>>

\* let record = result?; with an Err: main returns the error.
ReadError ==
    /\ pc = "reading"
    /\ pc' = "failed"
    /\ exit_code' = Some(1)
    /\ UNCHANGED <<args, overflow_checks, consumed, earlier, kmer_counts,
                   histogram, sorted_histogram, row, stdout, call, ret>>

\* The reader is exhausted: the histogram is computed and sorted and the
\* header line printed.
EndOfInput ==
    /\ pc = "reading"
    /\ histogram' = BuildHistogram(kmer_counts)
    /\ sorted_histogram' = SortHistogram(histogram')
    /\ row' = 1
    /\ stdout' = Append(stdout, HeaderLine)
    /\ pc' = "printing"
    /\ UNCHANGED <<args, overflow_checks, consumed, earlier, kmer_counts,
                   exit_code, call, ret>>

\* One iteration of the loop over sorted_histogram that prints.
PrintRow ==
    /\ pc = "printing"
    /\ row <= Len(sorted_histogram)
    /\ ~OverLimit(sorted_histogram[row][1], args.limit)
    /\ stdout' = Append(stdout, RowLine(sorted_histogram[row]))
    /\ row' = row + 1
    /\ UNCHANGED <<args, overflow_checks, pc, consumed, earlier, kmer_counts,
                   histogram, sorted_histogram, exit_code, call, ret>>

\* One iteration that breaks; main returns Ok(()).
Break ==
    /\ pc = "printing"
    /\ row <= Len(sorted_histogram)
    /\ OverLimit(sorted_histogram[row][1], args.limit)
    /\ pc' = "done"
    /\ exit_code' = Some(0)
    /\ UNCHANGED <<args, overflow_checks, consumed, earlier, kmer_counts,
                   histogram, sorted_histogram, row, stdout, call, ret>>

\* The loop ends; main returns Ok(()).
Finish ==
    /\ pc = "printing"
    /\ row > Len(sorted_histogram)
    /\ pc' = "done"
    /\ exit_code' = Some(0)
    /\ UNCHANGED <<args, overflow_checks, consumed, earlier, kmer_counts,
                   histogram, sorted_histogram, row, stdout, call, ret>>

Next ==
    \/ RejectK
    \/ Open
    \/ OpenError
    \/ ReadRecord
    \/ ReadError
    \/ EndOfInput
    \/ PrintRow
    \/ Break
    \/ Finish

Spec == Init /\ [][Next]_vars

\* ---------------------------------------------- a run watched from its middle
\* The counter of the 1-mer A after records that added 2^64 - 3 to it in all.
\* Every value of a counter is reached by some input: with k = 1 a record
\* adds its abundance once per base A, so 2^32 bases A at the abundance
\* 4294967295 and one more at 4294967293 leave 2^64 - 3.  That many bases
\* cannot be read one step at a time, so these runs are watched from the
\* record after them; earlier holds what they added.
NearMax == [i \in 1..U64Limbs |-> IF i = U64Limbs THEN Radix - 3 ELSE Radix - 1]

LateInit ==
    /\ args \in [k : {1}, canonical : BOOLEAN, limit : {None}]
    /\ overflow_checks \in BOOLEAN
    /\ pc = "reading"
    /\ consumed = <<>>
    /\ earlier = (U64Zero :> NearMax)
    /\ kmer_counts = earlier
    /\ histogram = <<>>
    /\ sorted_histogram = <<>>
    /\ row = 1
    /\ stdout = <<>>
    /\ exit_code = None
    /\ call = NoCall
    /\ ret = None

SpecLate == (Init \/ LateInit) /\ [][Next]_vars

\* ------------------------------------------- the k-mer generator on its own
\* pattern repeated to the length n.
Rep(pattern, n) == [i \in 1..n |-> pattern[((i - 1) % Len(pattern)) + 1]]

\* Sequences long enough for windows of KMax bases: all valid with T first,
\* an invalid first byte before mixed-case bases, and a run of T.
LongSeqs ==
    { Rep(<<"T", "G", "C", "A">>, KMax + 2),
      <<"N">> \o Rep(<<"g", "t", "a", "c", "C">>, KMax + 1),
      Rep(<<"T">>, KMax + 1) }

GenSeqs == UNION {[1..m -> Bytes] : m \in 0..MaxLen} \cup LongSeqs
GenKs == (0..MaxK) \cup {KMax - 1, KMax, KMax + 1}

GenInit ==
    /\ call \in [seq : GenSeqs, k : GenKs, canonical : BOOLEAN]
    /\ ret = None
    /\ args = [k |-> 0, canonical |-> FALSE, limit |-> None]
    /\ overflow_checks = FALSE
    /\ pc = "library"
    /\ consumed = <<>>
    /\ earlier = <<>>
    /\ kmer_counts = <<>>
    /\ histogram = <<>>
    /\ sorted_histogram = <<>>
    /\ row = 1
    /\ stdout = <<>>
    /\ exit_code = None

\* generate_encoded_kmers(seq, k, canonical) returns.
Generate ==
    /\ pc = "library"
    /\ ret = None
    /\ ret' = Some(generate_encoded_kmers(call.seq, call.k, call.canonical))
    /\ UNCHANGED <<call, mainVars>>

SpecGen == GenInit /\ [][Generate]_vars

\* ------------------------------------------------ what the claims speak of
\* A = 0, C = 1, G = 2, T = 3, in either case.
BaseCode(b) ==
    CASE b \in {"A", "a"} -> 0 [] b \in {"C", "c"} -> 1
      [] b \in {"G", "g"} -> 2 [] b \in {"T", "t"} -> 3

AllValid(w) == \A j \in 1..Len(w) : w[j] \in Valid

RECURSIVE SumOf(_, _)
SumOf(f, S) ==
    IF S = {} THEN 0
    ELSE LET x == CHOOSE y \in S : TRUE IN f[x] + SumOf(f, S \ {x})

\* The number whose base-4 digits are the codes of w, first base first, as a
\* u64: base j of k sits 2 * (k - j) bits above the lowest bit.
PackedValue(w) ==
    LET k == Len(w)
        shift == [j \in 1..k |-> 2 * (k - j)]
        part == [j \in 1..k |-> BaseCode(w[j]) * 2 ^ (shift[j] % LimbBits)]
    IN  [l \in 1..U64Limbs |->
            SumOf(part, {j \in 1..k : shift[j] \div LimbBits = U64Limbs - l})]

\* The windows of k bytes of seq, left to right.
Windows(seq, k) ==
    IF Len(seq) < k THEN <<>>
    ELSE [i \in 1..(Len(seq) - k + 1) |-> SubSeq(seq, i, i + k - 1)]

ValidWindows(seq, k) == SelectSeq(Windows(seq, k), AllValid)

\* The reverse complement of w as a string.
ComplementBase(b) ==
    CASE b = "A" -> "T" [] b = "T" -> "A" [] b = "C" -> "G" [] b = "G" -> "C"
      [] b = "a" -> "t" [] b = "t" -> "a" [] b = "c" -> "g" [] b = "g" -> "c"
ReverseComplement(w) ==
    [i \in 1..Len(w) |-> ComplementBase(w[Len(w) - i + 1])]

\* x <= y as unsigned integers.
NumLeq(x, y) ==
    LET differ == {i \in 1..Len(x) : x[i] # y[i]}
    IN  differ = {} \/ LET i == CHOOSE a \in differ : \A b \in differ : a <= b
                       IN  x[i] < y[i]
NumMin(x, y) == IF NumLeq(x, y) THEN x ELSE y

Returned == pc = "library" /\ ret # None

\* C2: without canonicalization, for k in 1..32, the generator returns, in
\* the order of their offsets, the packed value of every window made of
\* A, C, G, T (either case) only, and nothing for any other window; a
\* sequence shorter than k gives the empty vector.
C2_ForwardKmers ==
    (Returned /\ ~call.canonical /\ call.k \in 1..KMax) =>
        LET w == ValidWindows(call.seq, call.k)
        IN  /\ Unwrap(ret) = [i \in 1..Len(w) |-> PackedValue(w[i])]
            /\ Len(call.seq) < call.k => Unwrap(ret) = <<>>

\* C2 witness: windows of 32 bases, the first dropped for its N, the two
\* after it kept, the first base in the two highest bits.
C2_Witness ==
    /\ Returned /\ ~call.canonical /\ call.k = KMax
    /\ call.seq[1] = "N" /\ Len(call.seq) = KMax + 2
    /\ Len(Unwrap(ret)) = 2
    /\ Unwrap(ret)[1][1] \div (Radix \div 4) = BaseCode(call.seq[2])

\* C3: with canonicalization, for k in 1..32, every valid window gives the
\* smaller, as unsigned integers, of its packed value and the packed value
\* of its reverse complement; a window and its reverse complement give the
\* same k-mer.
C3_CanonicalKmers ==
    (Returned /\ call.canonical /\ call.k \in 1..KMax) =>
        LET w == ValidWindows(call.seq, call.k)
        IN  /\ Unwrap(ret) =
                 [i \in 1..Len(w) |->
                     NumMin(PackedValue(w[i]), PackedValue(ReverseComplement(w[i])))]
            /\ (Len(call.seq) = call.k /\ AllValid(call.seq)) =>
                 generate_encoded_kmers(ReverseComplement(call.seq), call.k, TRUE)
                     = Unwrap(ret)

\* C3 witness: a window of 32 T, whose reverse complement, 32 A, is smaller.
C3_Witness ==
    /\ Returned /\ call.canonical /\ call.k = KMax
    /\ \A i \in 1..Len(call.seq) : call.seq[i] = "T"
    /\ Unwrap(ret) = <<U64Zero, U64Zero>>

\* ----------------------------------------------------- sums wider than a u64
WideLimbs == U64Limbs + 2
Widen(x) == Zero(WideLimbs - Len(x)) \o x
WideZero == Zero(WideLimbs)

\* The number a value of at most 15 bits stands for.
Small(x) == x[Len(x)]
IsSmall(x) ==
    /\ \A i \in 1..(Len(x) - 1) : x[i] = 0
    /\ x[Len(x)] < Radix \div 2

RECURSIVE WideSum(_, _)
WideSum(f, S) ==
    IF S = {} THEN WideZero
    ELSE LET x == CHOOSE y \in S : TRUE
         IN  LimbAdd(f[x], WideSum(f, S \ {x})).val

Occurrences(seq, x) == Cardinality({i \in 1..Len(seq) : seq[i] = x})
Range(seq) == {seq[i] : i \in 1..Len(seq)}

\* ----------------------------------------------------- reading a header
\* The places of a ka:f: followed by a digit (of any script).
TagPlaces(header) ==
    {i \in 1..(Len(header) - 5) :
        /\ header[i] = "k" /\ header[i + 1] = "a" /\ header[i + 2] = ":"
        /\ header[i + 3] = "f" /\ header[i + 4] = ":"
        /\ header[i + 5] \in Digits \cup {ArabicIndicThree}}

RECURSIVE DigitRun(_, _)
DigitRun(header, from) ==
    IF from <= Len(header) /\ header[from] \in Digits \cup {ArabicIndicThree}
    THEN <<header[from]>> \o DigitRun(header, from + 1)
    ELSE <<>>

RECURSIVE StripZeros(_)
StripZeros(d) == IF d # <<>> /\ d[1] = "0" THEN StripZeros(Tail(d)) ELSE d

U32MaxDigits == <<"4", "2", "9", "4", "9", "6", "7", "2", "9", "5">>

\* d, without leading zeros, is a decimal number above 2^32 - 1.
AboveU32(d) ==
    \/ Len(d) > Len(U32MaxDigits)
    \/ /\ Len(d) = Len(U32MaxDigits)
       /\ \E i \in 1..Len(d) :
            /\ DigitValue(d[i]) > DigitValue(U32MaxDigits[i])
            /\ \A j \in 1..(i - 1) : d[j] = U32MaxDigits[j]

\* The header has no tag, or the digits of its first tag are no u32.
LacksAbundance(header) ==
    \/ TagPlaces(header) = {}
    \/ LET i == CHOOSE a \in TagPlaces(header) : \A b \in TagPlaces(header) : a <= b
           d == DigitRun(header, i + 5)
       IN  \/ \E j \in 1..Len(d) : d[j] \notin Digits
           \/ AboveU32(StripZeros(d))

Last(seq) == seq[Len(seq)]

\* ------------------------------------------------------------------- claims
\* C1: with k outside 1..32 the run ends with the configuration error
\* before any record is processed and prints nothing.
C1_BadKRejected ==
    (args.k < 1 \/ args.k > KMax) =>
        /\ pc \in {"start", "exited"}
        /\ consumed = <<>>
        /\ stdout = <<>>

\* What the record at position i of consumed adds to the counter of kmer.
Contribution(i, kmer) ==
    LET abundance == extract_abundance(Header(consumed[i]))
        kmers == generate_encoded_kmers(consumed[i].seq, args.k, args.canonical)
    IN  IF abundance = None THEN WideZero
        ELSE LimbMulSmall(Widen(Unwrap(abundance)), Occurrences(kmers, kmer)).val

\* The k-mers generated from the records read whose abundance was present.
Counted ==
    UNION { IF extract_abundance(Header(consumed[i])) = None THEN {}
            ELSE Range(generate_encoded_kmers(consumed[i].seq, args.k,
                                              args.canonical))
            : i \in 1..Len(consumed) }

\* C4: after any records, the table has an entry for exactly the k-mers
\* generated from a record with an abundance, and each entry is the sum
\* over those records of abundance times the number of windows of the
\* record that gave the k-mer.
C4_CountsAreSums ==
    pc \in {"reading", "printing", "done"} =>
        /\ DOMAIN kmer_counts = DOMAIN earlier \cup Counted
        /\ \A kmer \in DOMAIN kmer_counts :
             Widen(kmer_counts[kmer]) =
                 LimbAdd(IF kmer \in DOMAIN earlier THEN Widen(earlier[kmer])
                         ELSE WideZero,
                         WideSum([i \in 1..Len(consumed) |-> Contribution(i, kmer)],
                                 1..Len(consumed))).val

\* The example of C4: ACGTACGT with ka:f:2, k = 4, not canonical, gives
\* ACGT 4, CGTA 2, GTAC 2, TACG 2.
C4_Example ==
    /\ pc = "reading" /\ args.k = 4 /\ ~args.canonical /\ Len(consumed) = 1
    /\ kmer_counts = (U64FromInt(27) :> U64FromInt(4))
                     @@ (U64FromInt(108) :> U64FromInt(2))
                     @@ (U64FromInt(177) :> U64FromInt(2))
                     @@ (U64FromInt(198) :> U64FromInt(2))

\* C5: a record whose header has no ka:f:<digits> tag, or whose digits are
\* no integer of the abundance's type, leaves the table as it was, raises
\* no error, and the next record is read.
C5_SkippedRecord ==
    [][(pc = "reading" /\ Len(consumed') = Len(consumed) + 1
        /\ LacksAbundance(Header(Last(consumed'))))
       => (kmer_counts' = kmer_counts /\ pc' = "reading"
           /\ exit_code' = exit_code)]_vars

\* C5 witness: after a record that counted, a record with digits too large
\* and one without a tag have been read.
C5_Witness ==
    /\ pc = "reading" /\ Len(consumed) = 2 /\ kmer_counts # <<>>
    /\ ~LacksAbundance(Header(consumed[1]))
    /\ TagPlaces(Header(consumed[2])) # {}
    /\ LacksAbundance(Header(consumed[2]))
    /\ Len(consumed[2].seq) >= args.k

HistogramBuilt == pc \in {"printing", "done"}

\* C6: the frequencies of the histogram times their counts add up to the
\* sum of the values of the table.
C6_Conservation ==
    HistogramBuilt =>
        /\ \A f \in DOMAIN histogram : IsSmall(histogram[f])
        /\ WideSum([f \in DOMAIN histogram |->
                       LimbMulSmall(Widen(f), Small(histogram[f])).val],
                   DOMAIN histogram)
           = WideSum([x \in DOMAIN kmer_counts |-> Widen(kmer_counts[x])],
                     DOMAIN kmer_counts)

\* C6 witness: the histogram 2 -> 3, 4 -> 1 of the example.
C6_Witness ==
    /\ pc = "done"
    /\ histogram = (U64FromInt(2) :> U64FromInt(3)) @@ (U64FromInt(4) :> U64FromInt(1))

\* C7: the histogram maps each value of the table to the number of k-mers
\* with exactly that value, so its counts add up to the number of k-mers.
C7_HistogramCounts ==
    HistogramBuilt =>
        /\ DOMAIN histogram = {kmer_counts[x] : x \in DOMAIN kmer_counts}
        /\ \A v \in DOMAIN histogram :
             histogram[v] = U64FromInt(Cardinality(
                                {x \in DOMAIN kmer_counts : kmer_counts[x] = v}))
        /\ SumOf([v \in DOMAIN histogram |-> Small(histogram[v])], DOMAIN histogram)
           = Cardinality(DOMAIN kmer_counts)

\* C7 witness: k-mers of value 0 beside k-mers of other values.
C7_Witness ==
    /\ pc = "done"
    /\ U64Zero \in DOMAIN histogram
    /\ Cardinality(DOMAIN histogram) >= 2
    /\ \E v \in DOMAIN histogram : Small(histogram[v]) >= 2

\* The buckets at or below the limit (all of them without a limit).
Printable ==
    {f \in DOMAIN histogram : args.limit = None \/ NumLeq(f, Unwrap(args.limit))}

\* C8: after the header line the rows are in strictly ascending order of
\* frequency and are exactly the buckets with a frequency at or below the
\* limit; without a limit every bucket is printed.
C8_RowsUpToLimit ==
    pc = "done" =>
        /\ stdout # <<>> /\ stdout[1] = HeaderLine
        /\ LET rows == Tail(stdout)
           IN  /\ {rows[i].freq : i \in 1..Len(rows)} = Printable
               /\ \A i \in 1..Len(rows) : rows[i].count = histogram[rows[i].freq]
               /\ \A i \in 1..(Len(rows) - 1) :
                    /\ NumLeq(rows[i].freq, rows[i + 1].freq)
                    /\ rows[i].freq # rows[i + 1].freq

\* C8 witness: the example: with limit 2 the row 2 3 is printed and 4 1 is not.
C8_Witness ==
    /\ pc = "done"
    /\ args.limit = Some(U64FromInt(2))
    /\ histogram = (U64FromInt(2) :> U64FromInt(3)) @@ (U64FromInt(4) :> U64FromInt(1))
    /\ stdout = <<HeaderLine, [freq |-> U64FromInt(2), count |-> U64FromInt(3)]>>

\* C9: nothing is printed before the last record has been read and counted,
\* and a run the record source fails ends with a non-zero status and has
\* printed and will print nothing.
C9_OutputAfterInput ==
    /\ [](stdout # <<>> => pc \in {"printing", "done"})
    /\ [][stdout' # <<>> => consumed' = consumed /\ kmer_counts' = kmer_counts]_vars
    /\ [](pc = "failed" => (stdout = <<>> /\ exit_code \notin {None, Some(0)}))
    /\ [][pc = "failed" => (stdout' = <<>> /\ pc' = "failed")]_vars

\* C9 witness: the source fails after records were read and counted.
C9_Witness ==
    /\ pc = "failed" /\ Len(consumed) = MaxRecords /\ kmer_counts # <<>>
    /\ stdout = <<>> /\ exit_code = Some(1)

\* C10: a k-mer with an entry keeps it, and no entry is ever smaller than
\* it was.
C10_CountsOnlyGrow ==
    [][\A kmer \in DOMAIN kmer_counts :
          /\ kmer \in DOMAIN kmer_counts'
          /\ NumLeq(kmer_counts[kmer], kmer_counts'[kmer])]_vars

====
